---- MODULE Spec2Model ----
(***************************************************************************)
(* A model of src/validation.ts: the field builder (field, string, array,  *)
(* file, date, required, onlyFuture), a descriptor's validate(value) and   *)
(* the schema-level validate(schema, data).                                *)
(*                                                                         *)
(* JavaScript strings are sequences of one-character strings.  A message   *)
(* is such a sequence; the fixed tails of the generated messages           *)
(* (" is required", " can't be in the past") are kept as one element.      *)
(*                                                                         *)
(* A JavaScript value is a record [t, s, n, o]: t is its kind, s the       *)
(* characters of a string, n a number / length / size / day, o the         *)
(* properties of a plain object (a sequence of <<key, value>> pairs).      *)
(***************************************************************************)
EXTENDS Integers, Sequences, FiniteSets, TLC

VARIABLES
    DEFAULT_CRITERIA,  \* the module-level Criteria object (line 63)
    untyped,           \* the untyped builder field() returned last
    descs,             \* the typed descriptors built so far (the heap)
    hist,              \* per descriptor: the required() calls made on it
    today,             \* the host clock: day of month and day of week
    last               \* the last validate call and what it returned

vars == <<DEFAULT_CRITERIA, untyped, descs, hist, today, last>>

----------------------------------------------------------------------------
(* Bounds of the model *)

MaxDescs == 2
MaxCustom == 2
LastDay == 3

----------------------------------------------------------------------------
(* JavaScript values *)

Val(t, s, n) == [t |-> t, s |-> s, n |-> n, o |-> <<>>]

Undefined == Val("undefined", <<>>, 0)
Null == Val("null", <<>>, 0)
Str(s) == Val("string", s, 0)
StrObj(s) == Val("String", s, 0)
Arr(n) == Val("array", <<>>, n)
SetOf(n) == Val("set", <<>>, n)
Num(n) == Val("number", <<>>, n)
NaN == Val("NaN", <<>>, 0)
Bool(b) == Val("boolean", <<>>, IF b THEN 1 ELSE 0)
DateVal(time) == Val("date", <<>>, time)
Obj(props) == [t |-> "object", s |-> <<>>, n |-> 0, o |-> props]

\* !value
Falsy(v) ==
    \/ v.t \in {"undefined", "null", "NaN"}
    \/ v.t = "string" /\ Len(v.s) = 0
    \/ v.t \in {"number", "boolean"} /\ v.n = 0

\* String.prototype.trim, with the space as the only whitespace character
RECURSIVE TrimStart(_)
TrimStart(s) ==
    IF Len(s) > 0 /\ Head(s) = " " THEN TrimStart(Tail(s)) ELSE s

RECURSIVE TrimEnd(_)
TrimEnd(s) ==
    IF Len(s) > 0 /\ s[Len(s)] = " " THEN TrimEnd(SubSeq(s, 1, Len(s) - 1)) ELSE s

Trim(s) == TrimEnd(TrimStart(s))

\* the letters that occur in the field names
LowerCase == <<"a", "b", "c", "d", "e", "f", "i", "l", "n", "u">>
UpperCase == <<"A", "B", "C", "D", "E", "F", "I", "L", "N", "U">>

UpperChar(c) ==
    IF \E i \in 1..Len(LowerCase) : LowerCase[i] = c
    THEN UpperCase[CHOOSE i \in 1..Len(LowerCase) : LowerCase[i] = c]
    ELSE c

LowerChar(c) ==
    IF \E i \in 1..Len(UpperCase) : UpperCase[i] = c
    THEN LowerCase[CHOOSE i \in 1..Len(UpperCase) : UpperCase[i] = c]
    ELSE c

\* lodash capitalize: first character upper-cased, the rest lower-cased
capitalize(s) ==
    [i \in 1..Len(s) |-> IF i = 1 THEN UpperChar(s[i]) ELSE LowerChar(s[i])]

\* String.prototype.replaceAll("_", " ")
replaceAllUnderscores(s) ==
    [i \in 1..Len(s) |-> IF s[i] = "_" THEN " " ELSE s[i]]

\* String(field) of a field name: a string is itself, null and undefined
\* are spelled out
StringOf(name) ==
    CASE name.t = "null" -> <<"n", "u", "l", "l">>
      [] name.t = "undefined" -> <<"u", "n", "d", "e", "f", "i", "n", "e", "d">>
      [] OTHER -> name.s

fieldReadable(name) == capitalize(replaceAllUnderscores(StringOf(name)))

----------------------------------------------------------------------------
(* Messages *)

NoMsg == <<"<no message>">>     \* an absent msg argument / Map.get miss

buildDefaultMessageForCriteria(criteria, fieldName) ==
    IF criteria = "required"
    THEN fieldReadable(fieldName) \o <<" is required">>
    ELSE <<"Unknown error">>

MessagesGet(d, criteria) ==
    IF criteria = "required" THEN d._messages ELSE NoMsg

\* the caller's message is not looked up
getMessageDefaultOnly(d, fieldName, criteria) ==
    buildDefaultMessageForCriteria(criteria, fieldName)

getMessageForCriteria(d, fieldName, criteria) ==
    LET customMsg == MessagesGet(d, criteria)
    IN  IF customMsg = NoMsg \/ Len(customMsg) = 0
        THEN buildDefaultMessageForCriteria(criteria, fieldName)
        ELSE customMsg

----------------------------------------------------------------------------
(* The field builder *)

NoBuilder == Val("<no builder>", <<>>, 0)

\* field(fieldName): the untyped builder keeps the name it was given
field(fieldName) == fieldName

\* typedField(field): a new descriptor.  criteria is a reference to the one
\* DEFAULT_CRITERIA object; customCriteria and _messages are new and empty.
\* onlyFuture tells whether dateField added the onlyFuture method.
typedField(fieldBuilder) ==
    [_fieldName |-> fieldBuilder,
     criteria |-> "DEFAULT_CRITERIA",
     customCriteria |-> <<>>,
     _messages |-> NoMsg,
     onlyFuture |-> FALSE]

dateField(fieldBuilder) == [typedField(fieldBuilder) EXCEPT !.onlyFuture = TRUE]

\* the Criteria object a descriptor's criteria field refers to
CriteriaOf(d) ==
    IF d.criteria = "DEFAULT_CRITERIA" THEN DEFAULT_CRITERIA
    ELSE [required |-> FALSE, type |-> "String"]

\* if (msg): a message argument that is given and not the empty string
Truthy(msg) == msg # NoMsg /\ Len(msg) > 0

\* the _messages map after required(msg)
requiredMessages(d, msg) == IF Truthy(msg) THEN msg ELSE d._messages

----------------------------------------------------------------------------
(* The clock and the onlyFuture criterion.  Days are numbered within the   *)
(* current month: day 1 is the first of the month, day 0 the last day of   *)
(* the month before.  A time counts half days: 2 * day is local midnight   *)
(* of that day, 2 * day + 1 its noon.                                      *)

\* new Date(year, month, day).getTime() within the current month, in half
\* days: local midnight of that day
NewDate(day) == 2 * day

\* timeOfThisDay(): the date is built from now.getDay(), the day of the week
timeOfThisDay == NewDate(today.dow)

\* new Date(value).getTime(): a Date is its own time, a number or a boolean
\* counts milliseconds from 1970, anything else here does not parse
GetTime(value) ==
    CASE value.t = "date" -> [k |-> "time", time |-> value.n]
      [] value.t \in {"number", "boolean"} -> [k |-> "epoch", time |-> 0]
      [] OTHER -> [k |-> "NaN", time |-> 0]

\* vt < now
TimeBefore(vt, now) ==
    CASE vt.k = "time" -> vt.time < now
      [] vt.k = "epoch" -> TRUE
      [] OTHER -> FALSE

NoErr == <<"<null>">>     \* a custom validator's null

\* the validator onlyFuture(msg) pushes
onlyFutureChecker(d, msg, value) ==
    IF Falsy(value) THEN NoErr
    ELSE IF TimeBefore(GetTime(value), timeOfThisDay)
         THEN IF Truthy(msg) THEN msg
              ELSE fieldReadable(d._fieldName) \o <<" can't be in the past">>
         ELSE NoErr

\* a validator of the caller's, pushed on customCriteria:
\* (value) => typeof value === "string" ? null : "Not a string"
notStringChecker(value) ==
    IF value.t = "string" THEN NoErr ELSE <<"Not a string">>

customChecker(d, c, value) ==
    IF c.kind = "onlyFuture" THEN onlyFutureChecker(d, c.msg, value)
    ELSE notStringChecker(value)

----------------------------------------------------------------------------
(* A descriptor's validate(value) *)

\* a falsy test in place of the chain
isEmptyFalsy(value) ==
    \/ Falsy(value)
    \/ value.t = "String" /\ Len(Trim(value.s)) = 0
    \/ value.t \in {"array", "set"} /\ value.n = 0

\* the conditions of the if / else-if chain under which f() runs
isEmpty(value) ==
    \/ value.t = "undefined"
    \/ value.t = "String" /\ Len(Trim(value.s)) = 0
    \/ value.t = "array" /\ value.n = 0
    \/ value.t = "set" /\ value.n = 0

\* assert(condition, msg) of f()
fieldNameAsserted(d) == d._fieldName.t # "null"

\* err kept by the descriptor from one call to the next
errKept(d) ==
    IF last.op = "validate" /\ last.out.k = "returned" THEN last.out.errs
    ELSE <<>>

\* const err: string[] = []
errInit(d) == <<>>

\* the loop ends at the first criterion that reports an error
RECURSIVE customLoopBreak(_, _, _, _)
customLoopBreak(d, value, i, err) ==
    IF i > Len(d.customCriteria) THEN err
    ELSE LET e == customChecker(d, d.customCriteria[i], value)
         IN  IF e = NoErr THEN customLoopBreak(d, value, i + 1, err)
             ELSE Append(err, e)

\* the for loop over customCriteria, from the i-th on
RECURSIVE customLoop(_, _, _, _)
customLoop(d, value, i, err) ==
    IF i > Len(d.customCriteria) THEN err
    ELSE LET e == customChecker(d, d.customCriteria[i], value)
         IN  IF e = NoErr THEN customLoop(d, value, i + 1, err)
             ELSE customLoop(d, value, i + 1, Append(err, e))

Returned(errs) == [k |-> "returned", msg |-> <<>>, errs |-> errs, emap |-> <<>>]
Thrown(kind, msg) == [k |-> kind, msg |-> msg, errs |-> <<>>, emap |-> <<>>]

fieldValidate(d, value) ==
    LET f == CriteriaOf(d).required /\ isEmpty(value)
    IN  IF f /\ ~fieldNameAsserted(d)
        THEN Thrown("AssertionError", <<"Field name not specified">>)
        ELSE LET err == IF f
                        THEN Append(errInit(d),
                                    getMessageForCriteria(d, d._fieldName, "required"))
                        ELSE errInit(d)
             IN  Returned(customLoop(d, value, 1, err))

----------------------------------------------------------------------------
(* The schema-level validate(schema, data).  A schema is the sequence of   *)
(* its entries in key order; an entry is a leaf (the descriptor descs[d])  *)
(* or a nested schema (sub).  The error map is the sequence of its         *)
(* entries in insertion order.                                             *)

Leaf(key, d) == [key |-> key, leaf |-> TRUE, d |-> d, sub |-> <<>>]
Nested(key, sub) == [key |-> key, leaf |-> FALSE, d |-> 0, sub |-> sub]

isFinalValidatorField(entry) == entry.leaf

HasKey(props, key) == \E i \in 1..Len(props) : props[i][1] = key

\* data[key] of a value that is neither null nor undefined
GetProp(data, key) ==
    IF data.t = "object" /\ HasKey(data.o, key)
    THEN data.o[CHOOSE i \in 1..Len(data.o) : data.o[i][1] = key][2]
    ELSE Undefined

ErrLeaf(key, errs) == [key |-> key, leaf |-> TRUE, errs |-> errs, sub |-> <<>>]
ErrNested(key, sub) == [key |-> key, leaf |-> FALSE, errs |-> <<>>, sub |-> sub]

ReturnedMap(emap) == [k |-> "returned", msg |-> <<>>, errs |-> <<>>, emap |-> emap]

\* the key is set whatever e holds
setAlways(validationErrors, key, e) ==
    Append(validationErrors, ErrLeaf(key, e))

\* validationErrors.set(_fieldName, e) when e is not empty
setIfErrors(validationErrors, key, e) ==
    IF Len(e) # 0 THEN Append(validationErrors, ErrLeaf(key, e))
    ELSE validationErrors

\* validationErrors.set(_fieldName, res) when res is not empty
setIfNested(validationErrors, key, res) ==
    IF Len(res) # 0 THEN Append(validationErrors, ErrNested(key, res))
    ELSE validationErrors

\* the for loop of validate, from the i-th key on
RECURSIVE validateLoop(_, _, _, _)
validateLoop(schema, data, i, validationErrors) ==
    IF i > Len(schema) THEN ReturnedMap(validationErrors)
    ELSE IF data.t \in {"undefined", "null"}
    THEN Thrown("TypeError", <<"Cannot read properties of ", data.t>>)
    ELSE LET entry == schema[i]
             value == GetProp(data, entry.key)
         IN  IF isFinalValidatorField(entry)
             THEN LET e == fieldValidate(descs[entry.d], value)
                  IN  IF e.k # "returned" THEN e
                      ELSE validateLoop(schema, data, i + 1,
                               setIfErrors(validationErrors, entry.key, e.errs))
             ELSE LET res == validateLoop(entry.sub, value, 1, <<>>)
                  IN  IF res.k # "returned" THEN res
                      ELSE validateLoop(schema, data, i + 1,
                               setIfNested(validationErrors, entry.key, res.emap))

validate(schema, data) == validateLoop(schema, data, 1, <<>>)

----------------------------------------------------------------------------
(* The state machine *)

NoDay == [dom |-> 0, dow |-> 0]

NoCall ==
    [op |-> "none", d |-> 0, sch |-> <<>>, v |-> Undefined,
     out |-> Returned(<<>>), rep |-> FALSE, same |-> TRUE, day |-> NoDay]

NoHist == [called |-> FALSE, lastMsg |-> NoMsg, lastText |-> NoMsg]

InitOn(days) ==
    /\ DEFAULT_CRITERIA = [required |-> FALSE, type |-> "String"]
    /\ untyped = NoBuilder
    /\ descs = <<>>
    /\ hist = <<>>
    /\ today \in days
    /\ last = NoCall

\* field(fieldName)
Field(fieldName) ==
    /\ untyped' = field(fieldName)
    /\ last' = NoCall
    /\ UNCHANGED <<DEFAULT_CRITERIA, descs, hist, today>>

NewDescriptor(d, cap) ==
    /\ untyped # NoBuilder
    /\ Len(descs) < cap
    /\ descs' = Append(descs, d)
    /\ hist' = Append(hist, NoHist)
    /\ last' = NoCall
    /\ UNCHANGED <<DEFAULT_CRITERIA, untyped, today>>

\* field(...).string()
String(cap) == NewDescriptor(typedField(untyped), cap)

\* field(...).array()
Array(cap) == NewDescriptor(typedField(untyped), cap)

\* field(...).file()
File(cap) == NewDescriptor(typedField(untyped), cap)

\* field(...).date()
Date(cap) == NewDescriptor(dateField(untyped), cap)

\* descs[d].required(msg)
Required(d, msg) ==
    /\ d \in 1..Len(descs)
    /\ DEFAULT_CRITERIA' = [CriteriaOf(descs[d]) EXCEPT !.required = TRUE]
    /\ descs' = [descs EXCEPT ![d]._messages = requiredMessages(descs[d], msg)]
    /\ hist' = [hist EXCEPT ![d] =
                  [called |-> TRUE,
                   lastMsg |-> IF msg # NoMsg THEN msg ELSE @.lastMsg,
                   lastText |-> IF msg # NoMsg /\ msg # <<>> THEN msg ELSE @.lastText]]
    /\ last' = NoCall
    /\ UNCHANGED <<untyped, today>>

PushCriterion(d, c) ==
    /\ d \in 1..Len(descs)
    /\ Len(descs[d].customCriteria) < MaxCustom
    /\ descs' = [descs EXCEPT ![d].customCriteria = Append(@, c)]
    /\ last' = NoCall
    /\ UNCHANGED <<DEFAULT_CRITERIA, untyped, hist, today>>

\* descs[d].onlyFuture(msg), of a date descriptor
OnlyFuture(d, msg) ==
    /\ d \in 1..Len(descs)
    /\ descs[d].onlyFuture
    /\ PushCriterion(d, [kind |-> "onlyFuture", msg |-> msg])

\* descs[d].customCriteria.push(notStringChecker), by the caller
PushCustom(d) ==
    PushCriterion(d, [kind |-> "notString", msg |-> NoMsg])

\* what last holds after a call.  rep: the call repeats the call before it
\* (same operation, same arguments, no builder call in between); same: it
\* then returned what that call returned
Called(op, d, sch, v, out) ==
    [op |-> op, d |-> d, sch |-> sch, v |-> v, out |-> out,
     rep |-> last.op = op,
     same |-> (last.op = op) => (out = last.out),
     day |-> today]

\* descs[d].validate(value); the result of the call before was discarded
ValidateField(d, value) ==
    /\ d \in 1..Len(descs)
    /\ last.op = "none"
    /\ last' = Called("validate", d, <<>>, value, fieldValidate(descs[d], value))
    /\ UNCHANGED <<DEFAULT_CRITERIA, untyped, descs, hist, today>>

\* descs[d].validate(value) once more, with the descriptor and the value of
\* the call before
ValidateFieldAgain ==
    /\ last.op = "validate"
    /\ last' = Called("validate", last.d, <<>>, last.v,
                      fieldValidate(descs[last.d], last.v))
    /\ UNCHANGED <<DEFAULT_CRITERIA, untyped, descs, hist, today>>

\* validate(schema, data); the result of the call before was discarded
ValidateSchema(schema, data) ==
    /\ last.op = "none"
    /\ last' = Called("validateSchema", 0, schema, data, validate(schema, data))
    /\ UNCHANGED <<DEFAULT_CRITERIA, untyped, descs, hist, today>>

\* validate(schema, data) once more, with the schema and the data of the
\* call before
ValidateSchemaAgain ==
    /\ last.op = "validateSchema"
    /\ last' = Called("validateSchema", 0, last.sch, last.v,
                      validate(last.sch, last.v))
    /\ UNCHANGED <<DEFAULT_CRITERIA, untyped, descs, hist, today>>

\* the caller is done with the result of the last call
Discard ==
    /\ last.op # "none"
    /\ last' = NoCall
    /\ UNCHANGED <<DEFAULT_CRITERIA, untyped, descs, hist, today>>

\* midnight passes
Tick ==
    /\ today.dom < LastDay
    /\ today' = [dom |-> today.dom + 1, dow |-> (today.dow + 1) % 7]
    /\ UNCHANGED <<DEFAULT_CRITERIA, untyped, descs, hist, last>>

----------------------------------------------------------------------------
(* Inputs *)

NameAB == Str(<<"a", "_", "B">>)
NameC == Str(<<"c">>)

M1 == <<"M", "1">>
M2 == <<"M", "2">>
EmptyMsg == <<>>

Fixed == {[dom |-> 1, dow |-> 1]}
FirstOfMonth == {[dom |-> 1, dow |-> w] : w \in 0..6}

Strings ==
    {<<>>, <<" ">>, <<" ", " ">>, <<"x">>, <<" ", "x">>, <<"x", " ">>,
     <<" ", "x", " ">>}

StringValues == {Str(s) : s \in Strings} \cup {StrObj(s) : s \in Strings}

OtherValues ==
    {Undefined, Null, NaN, Arr(0), Arr(1), Arr(2), SetOf(0), SetOf(1),
     Num(0), Num(1), Bool(FALSE), Bool(TRUE), Obj(<<>>), DateVal(0)}

\* Date values from two days before the first of the month to LastDay's end
DateValues == {DateVal(t) : t \in (0 - 2)..(2 * LastDay + 2)}

DescIds == 1..Len(descs)

\* the schemas over the descriptors built so far
InnerSchemas ==
    {<<>>} \cup {<<Leaf("c", d)>> : d \in DescIds}
    \cup {<<Leaf("c", d), Leaf("e", d)>> : d \in DescIds}

Schemas ==
    {<<>>}
    \cup {<<Leaf("a", d)>> : d \in DescIds}
    \cup {<<Nested("b", n)>> : n \in InnerSchemas}
    \cup {<<Leaf("a", d[1]), Nested("b", <<Leaf("c", d[2])>>)>> :
             d \in DescIds \X DescIds}
    \cup {<<Nested("b", <<Nested("c", <<Leaf("e", d)>>)>>)>> : d \in DescIds}

InnerData ==
    {Obj(<<>>), Obj(<<<<"c", Arr(0)>>>>), Obj(<<<<"c", Str(<<"x">>)>>>>),
     Obj(<<<<"c", Arr(0)>>, <<"e", Str(<<"x">>)>>>>),
     Obj(<<<<"c", Obj(<<<<"e", Arr(0)>>>>)>>>>),
     Obj(<<<<"c", Obj(<<>>)>>>>)}

DataObjects ==
    {Obj(<<>>)}
    \cup {Obj(<<<<"a", v>>>>) : v \in {Arr(0), Str(<<"x">>)}}
    \cup {Obj(<<<<"b", v>>>>) : v \in InnerData \cup {Null, Str(<<"x">>)}}
    \cup {Obj(<<<<"a", Arr(0)>>, <<"b", w>>>>) :
             w \in {Obj(<<>>), Obj(<<<<"c", Arr(0)>>>>), Obj(<<<<"c", Str(<<"x">>)>>>>)}}
    \cup {Obj(<<<<"a", Arr(0)>>, <<"z", Arr(0)>>>>)}

----------------------------------------------------------------------------
(* Specifications *)

Build(names, cap) ==
    \/ \E n \in names : Field(n)
    \/ String(cap)
    \/ Array(cap)
    \/ File(cap)
    \/ Date(cap)

\* the builder with required messages, and validate on present and absent
\* values
Init == InitOn(Fixed)

Next ==
    \/ Build({NameAB, NameC}, MaxDescs)
    \/ \E d \in DescIds, msg \in {NoMsg, EmptyMsg, M1, M2} : Required(d, msg)
    \/ \E d \in DescIds, v \in {Undefined, Arr(1)} : ValidateField(d, v)
    \/ Discard

Spec == Init /\ [][Next]_vars

\* one field name, every kind of value
NextValues ==
    \/ Build({NameC}, MaxDescs)
    \/ \E d \in DescIds : Required(d, NoMsg)
    \/ \E d \in DescIds, v \in StringValues \cup OtherValues : ValidateField(d, v)
    \/ Discard

SpecValues == Init /\ [][NextValues]_vars

\* field names that are not set
NextUnset ==
    \/ Build({NameC, Null, Undefined}, MaxDescs)
    \/ \E d \in DescIds : Required(d, NoMsg)
    \/ \E d \in DescIds, v \in {Undefined, Arr(0), Arr(1)} : ValidateField(d, v)
    \/ \E s \in Schemas, data \in {Obj(<<>>), Obj(<<<<"b", Obj(<<>>)>>>>)} :
          ValidateSchema(s, data)
    \/ Discard

SpecUnset == Init /\ [][NextUnset]_vars

\* schemas and data objects.  required() is called on the first descriptor:
\* the required flag lives in the one DEFAULT_CRITERIA object, so validate
\* does not tell on which descriptor it was called
NextSchema ==
    \/ Build({NameAB, NameC}, MaxDescs)
    \/ Required(1, NoMsg)
    \/ \E s \in Schemas, data \in DataObjects : ValidateSchema(s, data)
    \/ Discard

SpecSchema == Init /\ [][NextSchema]_vars

\* one date descriptor, its custom criteria, and the clock
InitDate == InitOn(FirstOfMonth)

NextDate ==
    \/ Field(NameAB)
    \/ Date(1)
    \/ \E d \in DescIds : Required(d, NoMsg)
    \/ \E d \in DescIds, msg \in {NoMsg, M1} : OnlyFuture(d, msg)
    \/ \E d \in DescIds : PushCustom(d)
    \/ \E d \in DescIds, v \in DateValues \cup {Undefined, Arr(0), Str(<<"x">>)} :
          ValidateField(d, v)
    \/ \E d \in DescIds, v \in DateValues :
          ValidateSchema(<<Leaf("a", d)>>, Obj(<<<<"a", v>>>>))
    \/ ValidateFieldAgain
    \/ ValidateSchemaAgain
    \/ Discard
    \/ Tick

SpecDate == InitDate /\ [][NextDate]_vars

----------------------------------------------------------------------------
(* What the claims speak of *)

IsFieldCall == last.op = "validate"
IsSchemaCall == last.op = "validateSchema"

\* the descriptor of the last validate(value) call
LastDesc == descs[last.d]

\* the readable form of the two field names, written out
Readable(name) == IF name = NameAB THEN <<"A", " ", "b">> ELSE <<"C">>

RequiredDefault(d) == Readable(d._fieldName) \o <<" is required">>

Contains(seq, x) == \E i \in 1..Len(seq) : seq[i] = x

----------------------------------------------------------------------------
\* C1: a descriptor's required flag is set if and only if required() was
\* called on that descriptor itself, and a descriptor on which required()
\* was never called returns the empty sequence from validate(undefined).
C1_OwnCriteria ==
    /\ \A d \in DescIds : CriteriaOf(descs[d]).required <=> hist[d].called
    /\ (IsFieldCall /\ last.v = Undefined /\ ~hist[last.d].called)
          => last.out = Returned(<<>>)

\* C2: on a string value, a descriptor marked required returns the required
\* message exactly when the string is empty after trimming.
C2_TrimmedStrings ==
    (IsFieldCall /\ hist[last.d].called /\ last.v.t \in {"string", "String"})
       => last.out = Returned(IF Len(Trim(last.v.s)) = 0
                              THEN <<RequiredDefault(LastDesc)>>
                              ELSE <<>>)

\* C3: validate(schema, data) returns an error map for every schema of
\* built descriptors with a field name and every data object; it never
\* throws.
C3_AlwaysReturns == IsSchemaCall => last.out.k = "returned"

\* the data has an object under each key the schema maps to a nested schema
RECURSIVE ObjectsUnderNested(_, _)
ObjectsUnderNested(schema, data) ==
    /\ data.t = "object"
    /\ \A i \in 1..Len(schema) :
          schema[i].leaf
          \/ ObjectsUnderNested(schema[i].sub, GetProp(data, schema[i].key))

\* no key of the map, at any level, holds an empty sequence or an empty map
RECURSIVE NoEmptyEntry(_)
NoEmptyEntry(emap) ==
    \A i \in 1..Len(emap) :
        IF emap[i].leaf THEN Len(emap[i].errs) > 0
        ELSE Len(emap[i].sub) > 0 /\ NoEmptyEntry(emap[i].sub)

EntriesOf(emap, key) == {i \in 1..Len(emap) : emap[i].key = key}

\* C4: the returned map holds key k exactly when schema[k] is a leaf whose
\* validate(data[k]) is not empty (k maps to that sequence) or a nested
\* schema whose validate(schema[k], data[k]) is not empty (k maps to that
\* map); no key holds an empty sequence or map, no other key appears.
C4_SparseMap ==
    (IsSchemaCall /\ ObjectsUnderNested(last.sch, last.v))
       => /\ last.out.k = "returned"
          /\ NoEmptyEntry(last.out.emap)
          /\ \A i \in 1..Len(last.out.emap) :
                \E j \in 1..Len(last.sch) : last.sch[j].key = last.out.emap[i].key
          /\ \A j \in 1..Len(last.sch) :
                LET entry == last.sch[j]
                    value == GetProp(last.v, entry.key)
                    at == EntriesOf(last.out.emap, entry.key)
                    want == IF entry.leaf
                            THEN fieldValidate(descs[entry.d], value).errs
                            ELSE validate(entry.sub, value).emap
                IN  IF Len(want) = 0 THEN at = {}
                    ELSE /\ Cardinality(at) = 1
                         /\ \A i \in at :
                               last.out.emap[i] =
                                  IF entry.leaf THEN ErrLeaf(entry.key, want)
                                  ELSE ErrNested(entry.key, want)

\* a two-level map: a leaf error beside a nested one
C4_Witness ==
    /\ IsSchemaCall
    /\ ObjectsUnderNested(last.sch, last.v)
    /\ last.out.emap =
          <<ErrLeaf("a", <<<<"A", " ", "b", " is required">>>>),
            ErrNested("b", <<ErrLeaf("c", <<<<"C", " is required">>>>)>>)>>

\* the message of the onlyFuture criterion c of descriptor d
PastMessage(d, c) ==
    IF c.msg = NoMsg THEN Readable(d._fieldName) \o <<" can't be in the past">>
    ELSE c.msg

\* C5: with onlyFuture, a value one day before the start of the current
\* calendar day gives the "can't be in the past" message (or the caller's),
\* a value at or after the start of the current calendar day gives none.
C5_StartOfToday ==
    (IsFieldCall /\ last.v.t = "date")
       => \A i \in 1..Len(LastDesc.customCriteria) :
             LET c == LastDesc.customCriteria[i]
                 startOfToday == 2 * last.day.dom
             IN  c.kind = "onlyFuture"
                 => /\ last.v.n = startOfToday - 2
                          => Contains(last.out.errs, PastMessage(LastDesc, c))
                    /\ last.v.n >= startOfToday
                          => ~Contains(last.out.errs, PastMessage(LastDesc, c))

\* the required check fails: the value is one of the empty ones
EmptyValue(v) ==
    \/ v.t = "undefined"
    \/ v.t \in {"array", "set"} /\ v.n = 0

\* the messages of the custom criteria that fail, in registration order
CustomMessages(d, v) ==
    SelectSeq([i \in 1..Len(d.customCriteria) |->
                  customChecker(d, d.customCriteria[i], v)],
              LAMBDA e : e # NoErr)

\* C6: validate(value) returns the required message first (at most one,
\* when the required check fails), then the messages of the failing custom
\* criteria in registration order; every criterion is evaluated, also after
\* the required check failed; the sequence is empty when nothing fails.
\* (Stated of a result on the day of its call: onlyFuture reads the clock.)
C6_EvaluationOrder ==
    (IsFieldCall /\ last.day = today)
       => last.out =
             Returned((IF CriteriaOf(LastDesc).required /\ isEmpty(last.v)
                       THEN <<RequiredDefault(LastDesc)>> ELSE <<>>)
                      \o CustomMessages(LastDesc, last.v))

\* the required check failed and a criterion registered after one that
\* passes still reported
C6_Witness ==
    /\ IsFieldCall
    /\ last.day = today
    /\ Len(LastDesc.customCriteria) = 2
    /\ LastDesc.customCriteria[1].kind = "onlyFuture"
    /\ last.out.errs = <<<<"A", " ", "b", " is required">>, <<"Not a string">>>>

\* C7 as claimed: after required(msg?) on a descriptor, validate(undefined)
\* returns a non-empty sequence that starts with the message last given to
\* that descriptor, and with the default when no message was given.
C7_GivenMessage ==
    (IsFieldCall /\ last.v = Undefined /\ hist[last.d].called)
       => /\ last.out.k = "returned"
          /\ Len(last.out.errs) > 0
          /\ Head(last.out.errs) =
                IF hist[last.d].lastMsg # NoMsg THEN hist[last.d].lastMsg
                ELSE RequiredDefault(LastDesc)

\* C7: after required(msg?) on a descriptor, validate(undefined) returns a
\* non-empty sequence that starts with the last message given to that
\* descriptor that was not the empty string, and with the default built
\* from the descriptor's own field name when there was none.
C7_NonEmptyMessage ==
    (IsFieldCall /\ last.v = Undefined /\ hist[last.d].called)
       => /\ last.out.k = "returned"
          /\ Len(last.out.errs) > 0
          /\ Head(last.out.errs) =
                IF hist[last.d].lastText # NoMsg THEN hist[last.d].lastText
                ELSE RequiredDefault(LastDesc)

\* two descriptors: the one validated was given M2, the other was marked
\* required with no message
C7_Witness ==
    /\ IsFieldCall
    /\ last.v = Undefined
    /\ Len(descs) = 2
    /\ hist[last.d].lastText = M2
    /\ \E d \in DescIds : hist[d].called /\ hist[d].lastText = NoMsg
    /\ last.out.errs = <<M2>>

\* C8: on a value that is not a string, a descriptor marked required fails
\* the required check exactly when the value is undefined, an array with no
\* element or a Set with no element.
C8_NonStrings ==
    (IsFieldCall /\ hist[last.d].called /\ last.v.t \notin {"string", "String"})
       => last.out = Returned(IF EmptyValue(last.v)
                              THEN <<RequiredDefault(LastDesc)>>
                              ELSE <<>>)

\* the number 0 passes the required check
C8_Witness ==
    /\ IsFieldCall
    /\ hist[last.d].called
    /\ last.v = Num(0)
    /\ last.out = Returned(<<>>)

\* C9 as claimed: with no builder call in between, a validate call that
\* repeats the call before it returns an equal result.
C9_SameResult == last.rep => last.same

\* C9: a validate call leaves the Criteria object, every descriptor and the
\* untyped builder unchanged, and, with no builder call in between, a call
\* that repeats the call before it on the same date returns an equal result.
C9_SameResultSameDay ==
    [][(last' # last /\ last'.op # "none")
          => /\ UNCHANGED <<DEFAULT_CRITERIA, descs, untyped>>
             /\ (last'.rep /\ last.day = last'.day) => last'.same]_vars

\* a repeated call that reported errors, the same ones as before
C9_Witness ==
    /\ last.rep
    /\ last.same
    /\ last.out.k = "returned"
    /\ Len(last.out.errs) + Len(last.out.emap) > 0

\* C10: a descriptor marked required whose field name is not set (null or
\* undefined) throws "Field name not specified" when the required check
\* fails, also through validate(schema, data); with a field name that is
\* set, the assertion never fires.
C10_UnsetNameThrows ==
    /\ (IsFieldCall /\ CriteriaOf(LastDesc).required /\ EmptyValue(last.v))
          => (LastDesc._fieldName.t \in {"null", "undefined"}
                <=> last.out = Thrown("AssertionError", <<"Field name not specified">>))
    /\ (IsSchemaCall /\ Len(last.sch) = 1 /\ last.sch[1].leaf
           /\ CriteriaOf(descs[last.sch[1].d]).required
           /\ GetProp(last.v, last.sch[1].key) = Undefined
           /\ descs[last.sch[1].d]._fieldName.t \in {"null", "undefined"})
          => last.out = Thrown("AssertionError", <<"Field name not specified">>)
    /\ (IsSchemaCall /\ \A d \in DescIds : descs[d]._fieldName.t = "string")
          => last.out.k # "AssertionError"

====
